---- MODULE Spec2Model ----
(***************************************************************************)
(* Model of governance-upgrade-ix-generator (src/src/main.rs).             *)
(*                                                                         *)
(* The program builds one native Instruction, converts it to the           *)
(* Borsh-serialisable wrapper InstructionData, serialises it, encodes the  *)
(* bytes as unpadded base64, deserialises the bytes again, converts back   *)
(* and asserts equality with the original before printing the text.        *)
(*                                                                         *)
(* Bytes are integers 0..255, byte buffers and texts are sequences.        *)
(* The derived Borsh (de)serialisers are written out field by field in     *)
(* declaration order, as the derive macro generates them.                  *)
(***************************************************************************)
EXTENDS Integers, Sequences, FiniteSets, TLC

(* ------------------------------ bounds --------------------------------- *)
MaxAccounts == 3
MaxData == 2
MaxText == 4

(* --------------------------- program constants ------------------------- *)
PUBKEY_BYTES == 32

Byte == 0..255

(* ------------------------------ helpers -------------------------------- *)
Drop(s, n) == SubSeq(s, n + 1, Len(s))
Take(s, n) == SubSeq(s, 1, n)

(* Result<T> of a deserialiser reading from a `&mut &[u8]` cursor: on Ok   *)
(* the value and the slice left after the bytes consumed, on Err the kind. *)
Ok(v, rest) == [ok |-> TRUE, val |-> v, rest |-> rest, err |-> "none"]
Err(e) == [ok |-> FALSE, val |-> <<>>, rest |-> <<>>, err |-> e]

(* ------------------- Borsh serialisation (derive) ---------------------- *)
(* mutant: the count written most significant byte first *)
serialize_u32_big_endian(n) ==
    << (n \div 16777216) % 256, (n \div 65536) % 256, (n \div 256) % 256, n % 256 >>

(* u32: four bytes, little endian *)
serialize_u32(n) ==
    << n % 256, (n \div 256) % 256, (n \div 65536) % 256, (n \div 16777216) % 256 >>

(* bool: one byte, 1 for true and 0 for false *)
serialize_bool(b) == << IF b THEN 1 ELSE 0 >>

(* Pubkey: its 32 raw bytes *)
serialize_Pubkey(k) == k

(* AccountMetaData: pubkey, is_signer, is_writable in declaration order *)
serialize_AccountMetaData(a) ==
    serialize_Pubkey(a.pubkey) \o serialize_bool(a.is_signer) \o serialize_bool(a.is_writable)

(* mutant: the elements written last to first *)
RECURSIVE serialize_elems_reversed(_)
serialize_elems_reversed(accts) ==
    IF accts = <<>> THEN <<>>
    ELSE serialize_elems_reversed(Tail(accts)) \o serialize_AccountMetaData(Head(accts))

RECURSIVE serialize_elems(_)
serialize_elems(accts) ==
    IF accts = <<>> THEN <<>>
    ELSE serialize_AccountMetaData(Head(accts)) \o serialize_elems(Tail(accts))

(* Vec<AccountMetaData>: u32 length, then the elements in order *)
serialize_Vec_AccountMetaData(accts) ==
    serialize_u32(Len(accts)) \o serialize_elems(accts)

(* Vec<u8>: u32 length, then the bytes *)
serialize_Vec_u8(d) == serialize_u32(Len(d)) \o d

(* InstructionData: program_id, accounts, data in declaration order *)
serialize_InstructionData(r) ==
    serialize_Pubkey(r.program_id)
        \o serialize_Vec_AccountMetaData(r.accounts)
        \o serialize_Vec_u8(r.data)

(* ------------------ Borsh deserialisation (derive) --------------------- *)
deserialize_u32(buf) ==
    IF Len(buf) < 4 THEN Err("TruncatedInput")
    ELSE Ok(buf[1] + 256 * buf[2] + 65536 * buf[3] + 16777216 * buf[4], Drop(buf, 4))

(* mutant: any nonzero byte read as true *)
deserialize_bool_nonzero(buf) ==
    IF Len(buf) < 1 THEN Err("TruncatedInput")
    ELSE Ok(buf[1] # 0, Drop(buf, 1))

(* bool: one byte; 0 is false, 1 is true, anything else is rejected *)
deserialize_bool(buf) ==
    IF Len(buf) < 1 THEN Err("TruncatedInput")
    ELSE IF buf[1] = 0 THEN Ok(FALSE, Drop(buf, 1))
    ELSE IF buf[1] = 1 THEN Ok(TRUE, Drop(buf, 1))
    ELSE Err("InvalidBool")

deserialize_Pubkey(buf) ==
    IF Len(buf) < PUBKEY_BYTES THEN Err("TruncatedInput")
    ELSE Ok(Take(buf, PUBKEY_BYTES), Drop(buf, PUBKEY_BYTES))

(* mutant: the two flags read in the wrong order *)
deserialize_AccountMetaData_flags_swapped(buf) ==
    LET k == deserialize_Pubkey(buf) IN
    IF ~k.ok THEN k ELSE
    LET w == deserialize_bool(k.rest) IN
    IF ~w.ok THEN w ELSE
    LET s == deserialize_bool(w.rest) IN
    IF ~s.ok THEN s ELSE
    Ok([pubkey |-> k.val, is_signer |-> s.val, is_writable |-> w.val], s.rest)

deserialize_AccountMetaData(buf) ==
    LET k == deserialize_Pubkey(buf) IN
    IF ~k.ok THEN k ELSE
    LET s == deserialize_bool(k.rest) IN
    IF ~s.ok THEN s ELSE
    LET w == deserialize_bool(s.rest) IN
    IF ~w.ok THEN w ELSE
    Ok([pubkey |-> k.val, is_signer |-> s.val, is_writable |-> w.val], w.rest)

(* the element loop of Vec<T>: n more elements, acc read so far *)
RECURSIVE deserialize_elems(_, _, _)
deserialize_elems(n, acc, buf) ==
    IF n = 0 THEN Ok(acc, buf)
    ELSE LET a == deserialize_AccountMetaData(buf) IN
         IF ~a.ok THEN a
         ELSE deserialize_elems(n - 1, Append(acc, a.val), a.rest)

deserialize_Vec_AccountMetaData(buf) ==
    LET n == deserialize_u32(buf) IN
    IF ~n.ok THEN n ELSE deserialize_elems(n.val, <<>>, n.rest)

(* mutant: the declared length not checked, the bytes available taken *)
deserialize_Vec_u8_unchecked(buf) ==
    LET n == deserialize_u32(buf) IN
    IF ~n.ok THEN n
    ELSE LET m == IF Len(n.rest) < n.val THEN Len(n.rest) ELSE n.val IN
         Ok(Take(n.rest, m), Drop(n.rest, m))

(* Vec<u8>: the declared length is checked against the bytes available *)
deserialize_Vec_u8(buf) ==
    LET n == deserialize_u32(buf) IN
    IF ~n.ok THEN n
    ELSE IF Len(n.rest) < n.val THEN Err("TruncatedInput")
    ELSE Ok(Take(n.rest, n.val), Drop(n.rest, n.val))

(* mutant: try_from_slice in place of deserialize, bytes left are an error *)
try_from_slice_InstructionData(buf) ==
    LET p == deserialize_Pubkey(buf) IN
    IF ~p.ok THEN p ELSE
    LET a == deserialize_Vec_AccountMetaData(p.rest) IN
    IF ~a.ok THEN a ELSE
    LET d == deserialize_Vec_u8(a.rest) IN
    IF ~d.ok THEN d
    ELSE IF d.rest # <<>> THEN Err("TrailingBytes")
    ELSE Ok([program_id |-> p.val, accounts |-> a.val, data |-> d.val], d.rest)

(* InstructionData::deserialize(&mut &bytes[..]): reads the three fields   *)
(* and returns; the bytes after the record stay in the cursor.             *)
deserialize_InstructionData(buf) ==
    LET p == deserialize_Pubkey(buf) IN
    IF ~p.ok THEN p ELSE
    LET a == deserialize_Vec_AccountMetaData(p.rest) IN
    IF ~a.ok THEN a ELSE
    LET d == deserialize_Vec_u8(a.rest) IN
    IF ~d.ok THEN d ELSE
    Ok([program_id |-> p.val, accounts |-> a.val, data |-> d.val], d.rest)

(* ---------------------- native-instruction adapter --------------------- *)
(* mutant: the two flags of every account exchanged *)
from_native_flags_swapped(instruction) ==
    [program_id |-> instruction.program_id,
     accounts |-> [i \in 1..Len(instruction.accounts) |->
                     [pubkey |-> instruction.accounts[i].pubkey,
                      is_signer |-> instruction.accounts[i].is_writable,
                      is_writable |-> instruction.accounts[i].is_signer]],
     data |-> instruction.data]

(* impl From<Instruction> for InstructionData *)
from_native(instruction) ==
    [program_id |-> instruction.program_id,
     accounts |-> [i \in 1..Len(instruction.accounts) |->
                     [pubkey |-> instruction.accounts[i].pubkey,
                      is_signer |-> instruction.accounts[i].is_signer,
                      is_writable |-> instruction.accounts[i].is_writable]],
     data |-> instruction.data]

(* impl From<&InstructionData> for Instruction *)
to_native(instruction) ==
    [program_id |-> instruction.program_id,
     accounts |-> [i \in 1..Len(instruction.accounts) |->
                     [pubkey |-> instruction.accounts[i].pubkey,
                      is_signer |-> instruction.accounts[i].is_signer,
                      is_writable |-> instruction.accounts[i].is_writable]],
     data |-> instruction.data]

(* ------------------------ base64 text transport ------------------------ *)
(* the standard base64 alphabet; a text is a sequence of its characters *)
STANDARD_ALPHABET ==
    <<
       "A", "B", "C", "D", "E", "F", "G", "H", "I", "J", "K", "L", "M", "N", "O", "P",
       "Q", "R", "S", "T", "U", "V", "W", "X", "Y", "Z", "a", "b", "c", "d", "e", "f",
       "g", "h", "i", "j", "k", "l", "m", "n", "o", "p", "q", "r", "s", "t", "u", "v",
       "w", "x", "y", "z", "0", "1", "2", "3", "4", "5", "6", "7", "8", "9", "+", "/"
    >>

Sym(n) == STANDARD_ALPHABET[n + 1]

(* mutant: the padded engine, '=' fills the last group up to four symbols *)
RECURSIVE STANDARD_encode(_)
STANDARD_encode(b) ==
    IF Len(b) = 0 THEN <<>>
    ELSE IF Len(b) = 1 THEN
        << Sym(b[1] \div 4), Sym((b[1] % 4) * 16), "=", "=" >>
    ELSE IF Len(b) = 2 THEN
        << Sym(b[1] \div 4), Sym((b[1] % 4) * 16 + b[2] \div 16), Sym((b[2] % 16) * 4), "=" >>
    ELSE
        << Sym(b[1] \div 4), Sym((b[1] % 4) * 16 + b[2] \div 16),
           Sym((b[2] % 16) * 4 + b[3] \div 64), Sym(b[3] % 64) >>
            \o STANDARD_encode(Drop(b, 3))

(* mutant: the URL-safe engine, '-' and '_' for the last two symbols *)
UrlSym(n) == IF n = 62 THEN "-" ELSE IF n = 63 THEN "_" ELSE Sym(n)

RECURSIVE URL_SAFE_NO_PAD_encode(_)
URL_SAFE_NO_PAD_encode(b) ==
    IF Len(b) = 0 THEN <<>>
    ELSE IF Len(b) = 1 THEN
        << UrlSym(b[1] \div 4), UrlSym((b[1] % 4) * 16) >>
    ELSE IF Len(b) = 2 THEN
        << UrlSym(b[1] \div 4), UrlSym((b[1] % 4) * 16 + b[2] \div 16),
           UrlSym((b[2] % 16) * 4) >>
    ELSE
        << UrlSym(b[1] \div 4), UrlSym((b[1] % 4) * 16 + b[2] \div 16),
           UrlSym((b[2] % 16) * 4 + b[3] \div 64), UrlSym(b[3] % 64) >>
            \o URL_SAFE_NO_PAD_encode(Drop(b, 3))

(* general_purpose::STANDARD_NO_PAD.encode: three bytes give four symbols; *)
(* a final group of one or two bytes gives two or three symbols, its last  *)
(* symbol filled with zero bits, and no '=' is written.                    *)
RECURSIVE STANDARD_NO_PAD_encode(_)
STANDARD_NO_PAD_encode(b) ==
    IF Len(b) = 0 THEN <<>>
    ELSE IF Len(b) = 1 THEN
        << Sym(b[1] \div 4), Sym((b[1] % 4) * 16) >>
    ELSE IF Len(b) = 2 THEN
        << Sym(b[1] \div 4), Sym((b[1] % 4) * 16 + b[2] \div 16), Sym((b[2] % 16) * 4) >>
    ELSE
        << Sym(b[1] \div 4), Sym((b[1] % 4) * 16 + b[2] \div 16),
           Sym((b[2] % 16) * 4 + b[3] \div 64), Sym(b[3] % 64) >>
            \o STANDARD_NO_PAD_encode(Drop(b, 3))

(* from_text: the inverse direction.  The program never calls it; it is    *)
(* written from the transport's description: symbols outside the alphabet  *)
(* (so also '=') and a length of 1 modulo 4 are InvalidEncoding.           *)
Val(c) == (CHOOSE i \in 1..64 : STANDARD_ALPHABET[i] = c) - 1

RECURSIVE decode_groups(_)
decode_groups(v) ==
    IF Len(v) = 0 THEN <<>>
    ELSE IF Len(v) = 2 THEN << v[1] * 4 + v[2] \div 16 >>
    ELSE IF Len(v) = 3 THEN << v[1] * 4 + v[2] \div 16, (v[2] % 16) * 16 + v[3] \div 4 >>
    ELSE << v[1] * 4 + v[2] \div 16, (v[2] % 16) * 16 + v[3] \div 4, (v[3] % 4) * 64 + v[4] >>
            \o decode_groups(Drop(v, 4))

from_text(t) ==
    IF \E i \in 1..Len(t) : \A j \in 1..64 : STANDARD_ALPHABET[j] # t[i]
        THEN Err("InvalidEncoding")
    ELSE IF Len(t) % 4 = 1 THEN Err("InvalidEncoding")
    ELSE Ok(decode_groups([i \in 1..Len(t) |-> Val(t[i])]), <<>>)

(* ------------------------------- inputs -------------------------------- *)
(* 32-byte identifiers: constant ones and one whose bytes all differ *)
Key(b) == [i \in 1..PUBKEY_BYTES |-> b]
Ramp == [i \in 1..PUBKEY_BYTES |-> i]

ProgramIds == {Key(1), Ramp}

AccountMetas ==
    { [pubkey |-> Key(2), is_signer |-> TRUE, is_writable |-> FALSE],
      [pubkey |-> Key(2), is_signer |-> FALSE, is_writable |-> TRUE],
      [pubkey |-> Ramp, is_signer |-> TRUE, is_writable |-> TRUE],
      [pubkey |-> Ramp, is_signer |-> FALSE, is_writable |-> FALSE] }

DataBytes == {170, 187}

SeqsUpTo(S, n) == UNION { [1..k -> S] : k \in 0..n }

(* account lists: up to n pairwise different accounts, in every order *)
AccountLists(n) ==
    { s \in SeqsUpTo(AccountMetas, n) :
        \A i, j \in 1..Len(s) : i # j => s[i] # s[j] }

(* the native Instruction values an instruction builder may hand over *)
Instructions ==
    { [program_id |-> p, accounts |-> a, data |-> d] :
        p \in ProgramIds, a \in AccountLists(MaxAccounts),
        d \in SeqsUpTo(DataBytes, MaxData) }

(* bytes appended to or written into a buffer *)
ExtraBytes == {0, 1, 2, 255}

(* byte sequences given to the text transport *)
TextBytes == {0, 1, 170, 255}

(* ------------------------------- state --------------------------------- *)
VARIABLES
    pc,                    \* position in main
    transfer_instruction,  \* main: the native instruction built (l. 82)
    instruction_data,      \* main: its InstructionData (l. 93)
    instruction_bytes,     \* main: the serialised bytes (l. 94-95)
    encoded,               \* main: the base64 text (l. 98)
    deserialize_input,     \* main: which buffer deserialize was given (l. 102)
    instruction,           \* main: the instruction recovered (l. 101-102)
    assert_passed,         \* main: assert_eq! was evaluated and held (l. 104)
    stdout,                \* main: the lines printed (l. 106)
    record,                \* codec: an InstructionData or AccountMetaData value
    buffer,                \* codec: a byte buffer
    tamper,                \* codec: what was done to the buffer after serialising
    decoded,               \* codec: Result of deserialising / decoding
    reencoded,             \* codec: the decoded value serialised again
    text,                  \* transport: base64 text of buffer
    step                   \* codec / transport: position

mainVars == << pc, transfer_instruction, instruction_data, instruction_bytes, encoded,
               deserialize_input, instruction, assert_passed, stdout >>
codecVars == << record, buffer, tamper, decoded, reencoded, text, step >>
vars == << mainVars, codecVars >>

NoInstruction == [program_id |-> <<>>, accounts |-> <<>>, data |-> <<>>]
NoResult == Err("none")

MainIdle ==
    /\ pc = "idle"
    /\ transfer_instruction = NoInstruction
    /\ instruction_data = NoInstruction
    /\ instruction_bytes = <<>>
    /\ encoded = <<>>
    /\ deserialize_input = "none"
    /\ instruction = NoInstruction
    /\ assert_passed = FALSE
    /\ stdout = <<>>

CodecIdle ==
    /\ record = NoInstruction
    /\ buffer = <<>>
    /\ tamper = "none"
    /\ decoded = NoResult
    /\ reencoded = <<>>
    /\ text = <<>>
    /\ step = "idle"

(* =============================== main ================================== *)
(* l. 78-83: the instruction to encode has been built *)
Init ==
    /\ pc = "into"
    /\ transfer_instruction \in Instructions
    /\ instruction_data = NoInstruction
    /\ instruction_bytes = <<>>
    /\ encoded = <<>>
    /\ deserialize_input = "none"
    /\ instruction = NoInstruction
    /\ assert_passed = FALSE
    /\ stdout = <<>>
    /\ CodecIdle

(* l. 93: transfer_instruction.clone().into() *)
Into ==
    /\ pc = "into"
    /\ instruction_data' = from_native(transfer_instruction)
    /\ pc' = "serialize"
    /\ UNCHANGED << transfer_instruction, instruction_bytes, encoded, deserialize_input,
                    instruction, assert_passed, stdout, codecVars >>

(* l. 94-95: serialize into a fresh Vec and unwrap; writing to a Vec does  *)
(* not fail and the lengths here fit a u32, so the unwrap goes through.    *)
Serialize ==
    /\ pc = "serialize"
    /\ instruction_bytes' = serialize_InstructionData(instruction_data)
    /\ pc' = "encode"
    /\ UNCHANGED << transfer_instruction, instruction_data, encoded, deserialize_input,
                    instruction, assert_passed, stdout, codecVars >>

(* l. 98: STANDARD_NO_PAD.encode(&instruction_bytes) *)
Encode ==
    /\ pc = "encode"
    /\ encoded' = STANDARD_NO_PAD_encode(instruction_bytes)
    /\ pc' = "deserialize"
    /\ UNCHANGED << transfer_instruction, instruction_data, instruction_bytes,
                    deserialize_input, instruction, assert_passed, stdout, codecVars >>

(* l. 101-102: InstructionData::deserialize(&mut &instruction_bytes[..])   *)
(* .unwrap(), then Instruction::from; an Err panics.  The buffer read is   *)
(* instruction_bytes; encoded is not read.                                 *)
Deserialize ==
    /\ pc = "deserialize"
    /\ deserialize_input' = "instruction_bytes"
    /\ LET r == deserialize_InstructionData(instruction_bytes) IN
        IF r.ok
            THEN /\ instruction' = to_native(r.val)
                 /\ pc' = "assert"
            ELSE /\ instruction' = instruction
                 /\ pc' = "panicked"
    /\ UNCHANGED << transfer_instruction, instruction_data, instruction_bytes, encoded,
                    assert_passed, stdout, codecVars >>

(* l. 104: assert_eq!(transfer_instruction, instruction) *)
AssertEq ==
    /\ pc = "assert"
    /\ IF transfer_instruction = instruction
        THEN /\ assert_passed' = TRUE
             /\ pc' = "println"
        ELSE /\ assert_passed' = FALSE
             /\ pc' = "panicked"
    /\ UNCHANGED << transfer_instruction, instruction_data, instruction_bytes, encoded,
                    deserialize_input, instruction, stdout, codecVars >>

(* mutant: the line printed right after encoding, before the self-check *)
PrintlnBeforeCheck ==
    /\ pc = "deserialize"
    /\ stdout = <<>>
    /\ stdout' = Append(stdout, [prefix |-> "Encoded ix: ", text |-> encoded])
    /\ UNCHANGED << pc, transfer_instruction, instruction_data, instruction_bytes, encoded,
                    deserialize_input, instruction, assert_passed, codecVars >>

(* l. 106: println!("Encoded ix: {}", encoded) *)
Println ==
    /\ pc = "println"
    /\ stdout' = Append(stdout, [prefix |-> "Encoded ix: ", text |-> encoded])
    /\ pc' = "done"
    /\ UNCHANGED << transfer_instruction, instruction_data, instruction_bytes, encoded,
                    deserialize_input, instruction, assert_passed, codecVars >>

Next == Into \/ Serialize \/ Encode \/ Deserialize \/ AssertEq \/ Println

Spec == Init /\ [][Next]_vars

(* ====================== the binary codec on its own ==================== *)
(* An InstructionData value is serialised; the buffer is then left as is,  *)
(* cut to a proper prefix, extended by one byte, or has one flag byte      *)
(* overwritten; the buffer is deserialised; an Ok value is serialised      *)
(* again.                                                                  *)
CodecInit ==
    /\ MainIdle
    /\ record \in { from_native(x) : x \in Instructions }
    /\ buffer = <<>>
    /\ tamper = "none"
    /\ decoded = NoResult
    /\ reencoded = <<>>
    /\ text = <<>>
    /\ step = "record"

CodecSerialize ==
    /\ step = "record"
    /\ buffer' = serialize_InstructionData(record)
    /\ step' = "buffer"
    /\ UNCHANGED << mainVars, record, tamper, decoded, reencoded, text >>

CodecTruncate ==
    /\ step = "buffer" /\ tamper = "none"
    /\ \E k \in 0..(Len(buffer) - 1) : buffer' = Take(buffer, k)
    /\ tamper' = "truncated"
    /\ UNCHANGED << mainVars, record, decoded, reencoded, text, step >>

CodecAppend ==
    /\ step = "buffer" /\ tamper = "none"
    /\ \E v \in ExtraBytes : buffer' = Append(buffer, v)
    /\ tamper' = "appended"
    /\ UNCHANGED << mainVars, record, decoded, reencoded, text, step >>

(* offset (0-based) of the is_signer byte of account i in a serialised record *)
FlagOffset(i) == PUBKEY_BYTES + 4 + (PUBKEY_BYTES + 2) * (i - 1) + PUBKEY_BYTES

CodecSetFlag ==
    /\ step = "buffer" /\ tamper = "none"
    /\ \E i \in 1..Len(record.accounts), f \in 0..1, v \in ExtraBytes :
        /\ buffer[FlagOffset(i) + f + 1] # v
        /\ buffer' = [buffer EXCEPT ![FlagOffset(i) + f + 1] = v]
    /\ tamper' = "flag"
    /\ UNCHANGED << mainVars, record, decoded, reencoded, text, step >>

CodecDeserialize ==
    /\ step = "buffer"
    /\ decoded' = deserialize_InstructionData(buffer)
    /\ step' = "decoded"
    /\ UNCHANGED << mainVars, record, buffer, tamper, reencoded, text >>

CodecReserialize ==
    /\ step = "decoded" /\ decoded.ok
    /\ reencoded' = serialize_InstructionData(decoded.val)
    /\ step' = "reencoded"
    /\ UNCHANGED << mainVars, record, buffer, tamper, decoded, text >>

CodecNext ==
    \/ CodecSerialize \/ CodecTruncate \/ CodecAppend \/ CodecSetFlag
    \/ CodecDeserialize \/ CodecReserialize

SpecCodec == CodecInit /\ [][CodecNext]_vars

(* ================== one AccountMetaData, any flag bytes ================ *)
AccountInit ==
    /\ MainIdle
    /\ record = NoInstruction
    /\ \E k \in {Key(2), Ramp}, s \in Byte, w \in Byte : buffer = k \o << s, w >>
    /\ tamper = "none"
    /\ decoded = NoResult
    /\ reencoded = <<>>
    /\ text = <<>>
    /\ step = "buffer"

AccountDeserialize ==
    /\ step = "buffer"
    /\ decoded' = deserialize_AccountMetaData(buffer)
    /\ step' = "decoded"
    /\ UNCHANGED << mainVars, record, buffer, tamper, reencoded, text >>

AccountNext == AccountDeserialize

SpecAccount == AccountInit /\ [][AccountNext]_vars

(* ========================= the text transport ========================== *)
TextInit ==
    /\ MainIdle
    /\ record = NoInstruction
    /\ buffer \in SeqsUpTo(TextBytes, MaxText)
    /\ tamper = "none"
    /\ decoded = NoResult
    /\ reencoded = <<>>
    /\ text = <<>>
    /\ step = "buffer"

TextEncode ==
    /\ step = "buffer"
    /\ text' = STANDARD_NO_PAD_encode(buffer)
    /\ step' = "text"
    /\ UNCHANGED << mainVars, record, buffer, tamper, decoded, reencoded >>

TextDecode ==
    /\ step = "text"
    /\ decoded' = from_text(text)
    /\ step' = "decoded"
    /\ UNCHANGED << mainVars, record, buffer, tamper, reencoded, text >>

TextNext == TextEncode \/ TextDecode

SpecText == TextInit /\ [][TextNext]_vars

(* =============================== claims =============================== *)
AfterDeserialize == pc \in {"assert", "println", "done"}
CodecDecoded == step \in {"decoded", "reencoded"}

(* C1: for every native instruction x, converting it to InstructionData,   *)
(* serialising, deserialising and converting back gives a value equal to   *)
(* x, and no step of main fails.                                           *)
C1_RoundTripIdentity ==
    /\ pc # "panicked"
    /\ AfterDeserialize => instruction = transfer_instruction

C1_Witness ==
    /\ pc = "assert"
    /\ Len(transfer_instruction.accounts) = 3
    /\ Len(transfer_instruction.data) = 2
    /\ instruction = transfer_instruction

(* C2: decoding the encoding of a record succeeds and returns the record   *)
(* field by field: same processor id, same number of accounts, the same    *)
(* account at every index, the same payload bytes.                         *)
C2_DecodeEncode ==
    (CodecDecoded /\ tamper = "none") =>
        /\ decoded.ok
        /\ decoded.val.program_id = record.program_id
        /\ Len(decoded.val.accounts) = Len(record.accounts)
        /\ \A i \in 1..Len(record.accounts) :
            /\ decoded.val.accounts[i].pubkey = record.accounts[i].pubkey
            /\ decoded.val.accounts[i].is_signer = record.accounts[i].is_signer
            /\ decoded.val.accounts[i].is_writable = record.accounts[i].is_writable
        /\ decoded.val.data = record.data

C2_Witness ==
    /\ step = "decoded" /\ tamper = "none"
    /\ Len(record.accounts) = 3
    /\ decoded.ok
    /\ decoded.val.accounts = record.accounts

(* C3: the encoding of a record with n accounts and p payload bytes is the *)
(* 32 id bytes, n as 4 little-endian bytes, per account 32 address bytes   *)
(* and the two flag bytes, p as 4 little-endian bytes, the payload; its    *)
(* length is 32 + 4 + 34 n + 4 + p.                                        *)
LittleEndianAt(b, off) ==
    b[off + 1] + 256 * b[off + 2] + 65536 * b[off + 3] + 16777216 * b[off + 4]

C3_Layout ==
    (step = "buffer" /\ tamper = "none") =>
        LET n == Len(record.accounts)
            p == Len(record.data)
        IN  /\ Len(buffer) = 32 + 4 + 34 * n + 4 + p
            /\ \A i \in 1..Len(buffer) : buffer[i] \in Byte
            /\ SubSeq(buffer, 1, 32) = record.program_id
            /\ LittleEndianAt(buffer, 32) = n
            /\ \A i \in 1..n :
                LET o == 36 + 34 * (i - 1) IN
                /\ SubSeq(buffer, o + 1, o + 32) = record.accounts[i].pubkey
                /\ buffer[o + 33] = (IF record.accounts[i].is_signer THEN 1 ELSE 0)
                /\ buffer[o + 34] = (IF record.accounts[i].is_writable THEN 1 ELSE 0)
            /\ LittleEndianAt(buffer, 36 + 34 * n) = p
            /\ SubSeq(buffer, 40 + 34 * n + 1, 40 + 34 * n + p) = record.data

C3_Witness ==
    /\ step = "buffer" /\ tamper = "none"
    /\ record = [program_id |-> Key(1),
                 accounts |-> << [pubkey |-> Key(2), is_signer |-> TRUE,
                                  is_writable |-> FALSE] >>,
                 data |-> << 170, 187 >>]
    /\ Len(buffer) = 76

(* C4 as stated: decoding a correct encoding followed by one extra byte    *)
(* fails with TrailingBytes.                                               *)
C4_TrailingBytesRejected ==
    (CodecDecoded /\ tamper = "appended") =>
        (~decoded.ok /\ decoded.err = "TrailingBytes")

(* C4 amended: decoding a correct encoding followed by one extra byte      *)
(* succeeds, returns the record that was encoded and leaves exactly the    *)
(* extra byte unconsumed in the cursor.                                    *)
C4_TrailingByteLeft ==
    (CodecDecoded /\ tamper = "appended") =>
        /\ decoded.ok
        /\ decoded.val = record
        /\ decoded.rest = << buffer[Len(buffer)] >>

C4_Witness ==
    /\ step = "decoded" /\ tamper = "appended"
    /\ Len(record.accounts) = 1
    /\ decoded.ok
    /\ decoded.rest = << 255 >>

(* C5: decoding any proper prefix of a correct encoding (in particular the *)
(* encoding without its final byte) fails with TruncatedInput and returns  *)
(* no record.                                                              *)
C5_TruncationDetected ==
    (CodecDecoded /\ tamper = "truncated") =>
        (~decoded.ok /\ decoded.err = "TruncatedInput")

C5_Witness ==
    /\ step = "decoded" /\ tamper = "truncated"
    /\ Len(record.data) = 2
    /\ Len(buffer) = 32 + 4 + 34 * Len(record.accounts) + 4 + 1
    /\ ~decoded.ok

(* C6: text is printed only after the self-check passed: whenever a line   *)
(* has been printed, the bytes were deserialised, assert_eq! held and the  *)
(* recovered instruction equals the original; a panicked run has printed   *)
(* nothing.                                                                *)
C6_TextOnlyAfterCheck ==
    /\ stdout # <<>> =>
        /\ assert_passed
        /\ deserialize_input # "none"
        /\ instruction = transfer_instruction
    /\ pc = "panicked" => stdout = <<>>

C6_Witness ==
    /\ pc = "done"
    /\ assert_passed
    /\ Len(stdout) = 1
    /\ stdout[1].text = encoded
    /\ Len(encoded) > 0

(* C7 as stated: the self-check deserialises what the emitted base64 text  *)
(* decodes to.                                                             *)
C7_ChecksEmittedText ==
    (AfterDeserialize \/ pc = "panicked") => deserialize_input = "encoded"

(* C7 amended: the self-check deserialises instruction_bytes, the buffer   *)
(* that was base64-encoded, and never reads the text; the text printed is  *)
(* the unpadded base64 of that buffer, so decoding it gives those bytes    *)
(* and they deserialise to the original instruction.                       *)
C7_ChecksBytesTextAgrees ==
    /\ AfterDeserialize => deserialize_input = "instruction_bytes"
    /\ stdout # <<>> =>
        LET t == from_text(stdout[1].text) IN
        /\ t.ok
        /\ t.val = instruction_bytes
        /\ LET r == deserialize_InstructionData(t.val) IN
            r.ok /\ to_native(r.val) = transfer_instruction

C7_Witness ==
    /\ pc = "done"
    /\ deserialize_input = "instruction_bytes"
    /\ Len(stdout) = 1
    /\ from_text(stdout[1].text).ok
    /\ Len(transfer_instruction.accounts) = 2

(* C8: for every byte sequence b, the empty one included, decoding the     *)
(* text of b gives b; the text uses only the 64 alphabet symbols (no '=')  *)
(* and has the unpadded length ceil(4 |b| / 3).                            *)
C8_TextRoundTrip ==
    /\ step \in {"text", "decoded"} =>
        /\ \A i \in 1..Len(text) : \E j \in 1..64 : STANDARD_ALPHABET[j] = text[i]
        /\ \A i \in 1..Len(text) : text[i] # "="
        /\ Len(text) = (4 * Len(buffer) + 2) \div 3
    /\ step = "decoded" => (decoded.ok /\ decoded.val = buffer)

C8_Witness ==
    /\ step = "decoded"
    /\ Len(buffer) = 4
    /\ Len(text) = 6
    /\ decoded.ok
    /\ decoded.val = buffer

(* C9 as stated: every flag byte value is accepted, 0 as false and every   *)
(* other value as true; decoding never fails on a flag byte.               *)
C9_AnyFlagByteAccepted ==
    step = "decoded" =>
        /\ decoded.ok
        /\ decoded.val.is_signer = (buffer[33] # 0)
        /\ decoded.val.is_writable = (buffer[34] # 0)

(* C9 amended: each flag is read from one byte; 0 decodes to false, 1 to   *)
(* true, and any other value (2..255) makes decoding fail.                 *)
C9_StrictFlagByte ==
    step = "decoded" =>
        IF buffer[33] \in {0, 1} /\ buffer[34] \in {0, 1}
            THEN /\ decoded.ok
                 /\ decoded.val.pubkey = SubSeq(buffer, 1, 32)
                 /\ decoded.val.is_signer = (buffer[33] = 1)
                 /\ decoded.val.is_writable = (buffer[34] = 1)
                 /\ decoded.rest = <<>>
            ELSE ~decoded.ok /\ decoded.err = "InvalidBool"

C9_Witness ==
    /\ step = "decoded"
    /\ buffer[33] = 1
    /\ buffer[34] = 255
    /\ ~decoded.ok

(* C10 as stated: whenever decoding a buffer succeeds, encoding the        *)
(* decoded record gives the buffer back.                                   *)
C10_Bijection ==
    step = "reencoded" => reencoded = buffer

(* C10 amended: whenever decoding a buffer succeeds, encoding the decoded  *)
(* record gives back the part of the buffer that decoding consumed (the    *)
(* buffer without the unconsumed rest), hence the buffer itself exactly    *)
(* when nothing was left; a buffer that differs from a record's encoding   *)
(* and is consumed whole decodes to a different record.                    *)
C10_ConsumedPrefix ==
    step = "reencoded" =>
        /\ reencoded \o decoded.rest = buffer
        /\ decoded.rest = <<>> => reencoded = buffer
        /\ (tamper = "flag" /\ decoded.rest = <<>>) => decoded.val # record

C10_Witness ==
    /\ step = "reencoded"
    /\ tamper = "flag"
    /\ decoded.rest = <<>>
    /\ reencoded = buffer

====
